---- MODULE Spec2Model ----
(***************************************************************************)
(* Model of the component validator of handoff-hubspot-poc.                *)
(*                                                                         *)
(*   validateField / validateModule   src/unnamed/part_000                 *)
(*   validateField (earlier copy)     src/src/validate/index.ts            *)
(*                                                                         *)
(* Both are pure functions from a property tree to an ordered list of      *)
(* diagnostics.  They are modelled as operators that build the list block  *)
(* by block in the order of the source; the state machines below draw an   *)
(* input from a bounded set and apply them.                                *)
(*                                                                         *)
(* Encoding of JavaScript values                                           *)
(*   optional value     None = <<>> (undefined), Some(v) = <<v>>           *)
(*   strings            TLA+ strings; "" is the one falsy string           *)
(*   numbers            integers; 0 is the one falsy number                *)
(*   property.default   [kind, s, keys]: undefined, a string s, or an      *)
(*                      object with the key set keys                       *)
(*   rules.required     the JavaScript literal as text: "undefined",       *)
(*                      "true", "false", "'yes'" (truthy non-boolean),     *)
(*                      "0" (falsy non-boolean)                            *)
(*   component.tags     the JavaScript literal as text                     *)
(*   a mapping          the sequence of its [key, value] entries in        *)
(*                      for-in iteration order                             *)
(*   a diagnostic       a record; component-level diagnostics have no      *)
(*                      property and no severity field                     *)
(***************************************************************************)
EXTENDS Integers, Sequences, FiniteSets, TLC

VARIABLES
    component,  \* the HandoffComponent handed to validateModule
    property,   \* the PropertyDefinition handed to validateField
    key,        \* the key handed to validateField
    errors,     \* the list the call returned
    calls,      \* the paths of the nodes validateField was called on
    pc,         \* "start" before the call, then which function returned
    console,    \* what console.error / console.log have printed, in order
    remote,     \* the components of the remote store, in list order
    tasks       \* per entry of the list: how often it was fetched, and
                \* whether its callback is idle, pending on the fetch or done

vars == <<component, property, key, errors, calls, pc, console, remote, tasks>>

-----------------------------------------------------------------------------
(* Bounds of the checked inputs *)

\* largest number used for rules.content.min / max and the image dimensions
MaxNum == 2
\* largest number of entries of component.properties
MaxProps == 2
\* deepest nesting of array fields below a top-level field
MaxDepth == 2
\* largest number of components in the list validateAll fetches
MaxComponents == 3

-----------------------------------------------------------------------------
(* JavaScript values *)

None == <<>>
Some(v) == <<v>>

\* !x for an optional string
NotStr(o) == o = None \/ o[1] = ""
\* !x for an optional number
NotNum(o) == o = None \/ o[1] = 0
\* !x for an optional object (every object is truthy)
NotObj(o) == o = None

DUndefined == [kind |-> "undefined", s |-> "", keys |-> {}]
DString(str) == [kind |-> "string", s |-> str, keys |-> {}]
DObject(ks) == [kind |-> "object", s |-> "", keys |-> ks]

\* !property.default
NotDefault(d) == d.kind = "undefined" \/ (d.kind = "string" /\ d.s = "")
\* !property.default || typeof property.default !== "object"
NotObjectDefault(d) == NotDefault(d) \/ d.kind # "object"

\* the enumeration imported from ../fields/types
FieldTypes == {"text", "array", "image", "link", "button", "group"}

FieldDiag(message, attribute, k, severity) ==
    [message |-> message, attribute |-> attribute, property |-> k,
     severity |-> severity]

ComponentDiag(message, attribute) ==
    [message |-> message, attribute |-> attribute]

-----------------------------------------------------------------------------
(* validateField, src/unnamed/part_000 lines 18-304, block by block *)

\* lines 23-37
typeCheck(p, k) ==
    IF NotStr(p.type)
    THEN <<FieldDiag("Field type is required", "type", k, "error")>>
    ELSE IF p.type[1] \notin FieldTypes
    THEN <<FieldDiag("Field type " \o p.type[1] \o " is invalid", "type", k,
                     "error")>>
    ELSE <<>>

\* lines 38-45
descriptionCheck(p, k) ==
    IF NotStr(p.description)
    THEN <<FieldDiag("Field description is required", "description", k,
                     "warning")>>
    ELSE <<>>

\* lines 46-53
nameCheck(p, k) ==
    IF NotStr(p.name)
    THEN <<FieldDiag("Field name is required", "name", k, "error")>>
    ELSE <<>>

\* the same check without the exemption of arrays
defaultCheck_noArrayExemption(p, k) ==
    IF p.default.kind = "undefined"
    THEN <<FieldDiag("Field default is required", "default", k, "warning")>>
    ELSE <<>>

\* lines 54-61
defaultCheck(p, k) ==
    IF p.default.kind = "undefined" /\ p.type # Some("array")
    THEN <<FieldDiag("Field default is required", "default", k, "warning")>>
    ELSE <<>>

\* lines 63-70, the branch taken when rules is missing
rulesMissing(p, k) ==
    <<FieldDiag("Field rules are required", "rules", k, "warning")>>

\* lines 71-78
requiredCheck(p, k) ==
    IF p.rules[1].required # "false" /\ p.rules[1].required # "true"
    THEN <<FieldDiag("Field rules.required is required", "rules.required", k,
                     "error")>>
    ELSE <<>>

\* lines 79-96
contentChecks(p, k) ==
    IF ~NotObj(p.rules[1].content)
    THEN (IF NotNum(p.rules[1].content[1].min) /\ p.rules[1].required = "true"
          THEN <<FieldDiag("Content rules must have a minimum length",
                           "rules.content.min", k, "warning")>>
          ELSE <<>>)
         \o
         (IF NotNum(p.rules[1].content[1].max)
          THEN <<FieldDiag("Content rules must have a maximum length",
                           "rules.content.min", k, "warning")>>
          ELSE <<>>)
    ELSE <<>>

\* lines 97-106
textChecks(p, k) ==
    IF p.type = Some("text") /\ NotObj(p.rules[1].content)
    THEN <<FieldDiag("Content rules are required for text fields",
                     "rules.content", k, "error")>>
    ELSE <<>>

\* the same checks without the lower bound on min
arrayContentChecks_noLowerBound(p, k) ==
    IF NotObj(p.rules[1].content)
    THEN <<FieldDiag("Content rules are required for array fields",
                     "rules.content", k, "error")>>
    ELSE (IF NotNum(p.rules[1].content[1].min)
          THEN <<FieldDiag("Array fields must have a minimum content length",
                           "rules.content.min", k, "error")>>
          ELSE <<>>)
         \o
         (IF NotNum(p.rules[1].content[1].max)
          THEN <<FieldDiag("Content rules must have a maximum length",
                           "rules.content.min", k, "error")>>
          ELSE IF p.rules[1].content[1].max[1] < 1
          THEN <<FieldDiag("Content rules maximum length must be greater than 0",
                           "rules.content.max", k, "error")>>
          ELSE <<>>)

\* lines 108-146
arrayContentChecks(p, k) ==
    IF NotObj(p.rules[1].content)
    THEN <<FieldDiag("Content rules are required for array fields",
                     "rules.content", k, "error")>>
    ELSE (IF NotNum(p.rules[1].content[1].min)
          THEN <<FieldDiag("Array fields must have a minimum content length",
                           "rules.content.min", k, "error")>>
          ELSE IF p.rules[1].content[1].min[1] < 1
          THEN <<FieldDiag("Array fields must have a maximum content length",
                           "rules.content.min", k, "error")>>
          ELSE <<>>)
         \o
         (IF NotNum(p.rules[1].content[1].max)
          THEN <<FieldDiag("Content rules must have a maximum length",
                           "rules.content.min", k, "error")>>
          ELSE IF p.rules[1].content[1].max[1] < 1
          THEN <<FieldDiag("Content rules maximum length must be greater than 0",
                           "rules.content.max", k, "error")>>
          ELSE <<>>)

RECURSIVE validateField(_, _)
RECURSIVE forInItems(_, _)
RECURSIVE forInItems_parentKey(_, _, _)

\* lines 178-182: the loop over items.properties, from entry i on
forInItems(properties, i) ==
    IF i > Len(properties)
    THEN <<>>
    ELSE validateField(properties[i].value, properties[i].key)
         \o forInItems(properties, i + 1)

\* lines 155-169
itemsTypeCheck(p, k) ==
    IF NotStr(p.items[1].type)
    THEN <<FieldDiag("Type is required for array fields", "items.type", k,
                     "error")>>
    ELSE IF p.items[1].type[1] \notin FieldTypes
    THEN <<FieldDiag("Field type " \o p.items[1].type[1] \o " is invalid",
                     "items.type", k, "error")>>
    ELSE <<>>

\* the loop of lines 178-182 handing the array's own key to the nested fields
forInItems_parentKey(properties, i, k) ==
    IF i > Len(properties)
    THEN <<>>
    ELSE validateField(properties[i].value, k)
         \o forInItems_parentKey(properties, i + 1, k)

\* the items checks with the nested diagnostics reported under the array's key
itemsChecks_parentKey(p, k) ==
    IF NotObj(p.items)
    THEN <<FieldDiag("Items are required for array fields", "items", k,
                     "error")>>
    ELSE itemsTypeCheck(p, k)
         \o
         (IF NotObj(p.items[1].properties)
          THEN <<FieldDiag("Properties are required for array fields",
                           "items.properties", k, "error")>>
          ELSE forInItems_parentKey(p.items[1].properties[1], 1, k))

\* lines 147-184
itemsChecks(p, k) ==
    IF NotObj(p.items)
    THEN <<FieldDiag("Items are required for array fields", "items", k,
                     "error")>>
    ELSE itemsTypeCheck(p, k)
         \o
         (IF NotObj(p.items[1].properties)
          THEN <<FieldDiag("Properties are required for array fields",
                           "items.properties", k, "error")>>
          ELSE forInItems(p.items[1].properties[1], 1))

\* lines 107-185
arrayChecks(p, k) ==
    IF p.type = Some("array")
    THEN arrayContentChecks(p, k) \o itemsChecks(p, k)
    ELSE <<>>

\* lines 187-211, the body of the link branch
linkDefaultChecks(p, k) ==
    IF NotObjectDefault(p.default)
    THEN <<FieldDiag("Default is required for link fields", "default", k,
                     "error")>>
    ELSE (IF "url" \notin p.default.keys
          THEN <<FieldDiag("Default url is required for link fields",
                           "image.default.url", k, "error")>>
          ELSE <<>>)
         \o
         (IF "text" \notin p.default.keys
          THEN <<FieldDiag("Default text is required for link fields",
                           "link.default.text", k, "error")>>
          ELSE <<>>)

\* lines 186-212
linkChecks(p, k) ==
    IF p.type = Some("link") THEN linkDefaultChecks(p, k) ELSE <<>>

\* lines 213-239
buttonChecks(p, k) ==
    IF p.type = Some("button")
    THEN IF NotObjectDefault(p.default)
         THEN <<FieldDiag("Default is required for link fields", "default", k,
                          "error")>>
         ELSE (IF "url" \notin p.default.keys
               THEN <<FieldDiag("Default url is required for image fields",
                                "image.default.url", k, "error")>>
               ELSE <<>>)
              \o
              (IF "label" \notin p.default.keys
               THEN <<FieldDiag("Default label is required for image fields",
                                "link.default.label", k, "error")>>
               ELSE <<>>)
    ELSE <<>>

\* lines 241-265
imageDefaultChecks(p, k) ==
    IF NotObjectDefault(p.default)
    THEN <<FieldDiag("Default is required for image fields", "default", k,
                     "error")>>
    ELSE (IF "src" \notin p.default.keys
          THEN <<FieldDiag("Default src is required for image fields",
                           "image.default.src", k, "error")>>
          ELSE <<>>)
         \o
         (IF "alt" \notin p.default.keys
          THEN <<FieldDiag("Default alt is required for image fields",
                           "image.default.alt", k, "error")>>
          ELSE <<>>)

\* the dimension checks with the height test reading width a second time
dimensionChecks_widthTwice(p, k) ==
    IF NotObj(p.rules[1].dimensions)
    THEN <<FieldDiag("Dimensions are required for image fields",
                     "rules.dimensions", k, "error")>>
    ELSE IF NotObj(p.rules[1].dimensions[1].min)
    THEN <<FieldDiag("Minimum is required for image fields",
                     "rules.dimensions.min", k, "error")>>
    ELSE (IF NotNum(p.rules[1].dimensions[1].min[1].width)
          THEN <<FieldDiag("Minimum width is required for image fields",
                           "rules.dimensions.width", k, "error")>>
          ELSE <<>>)
         \o
         (IF NotNum(p.rules[1].dimensions[1].min[1].width)
          THEN <<FieldDiag("Minimum height is required for image fields",
                           "rules.dimensions.height", k, "error")>>
          ELSE <<>>)

\* lines 266-299
dimensionChecks(p, k) ==
    IF NotObj(p.rules[1].dimensions)
    THEN <<FieldDiag("Dimensions are required for image fields",
                     "rules.dimensions", k, "error")>>
    ELSE IF NotObj(p.rules[1].dimensions[1].min)
    THEN <<FieldDiag("Minimum is required for image fields",
                     "rules.dimensions.min", k, "error")>>
    ELSE (IF NotNum(p.rules[1].dimensions[1].min[1].width)
          THEN <<FieldDiag("Minimum width is required for image fields",
                           "rules.dimensions.width", k, "error")>>
          ELSE <<>>)
         \o
         (IF NotNum(p.rules[1].dimensions[1].min[1].height)
          THEN <<FieldDiag("Minimum height is required for image fields",
                           "rules.dimensions.height", k, "error")>>
          ELSE <<>>)

\* lines 240-300
imageChecks(p, k) ==
    IF p.type = Some("image")
    THEN imageDefaultChecks(p, k) \o dimensionChecks(p, k)
    ELSE <<>>

\* lines 22-61: the checks made before rules is looked at
baseChecks(p, k) ==
    typeCheck(p, k) \o descriptionCheck(p, k) \o nameCheck(p, k)
    \o defaultCheck(p, k)

\* lines 70-301: the else branch, taken when rules is present
rulesChecks(p, k) ==
    requiredCheck(p, k) \o contentChecks(p, k) \o textChecks(p, k)
    \o arrayChecks(p, k) \o linkChecks(p, k) \o buttonChecks(p, k)
    \o imageChecks(p, k)

\* rules missing reported, and the link branch run all the same
rulesBranch_linkOutside(p, k) ==
    IF NotObj(p.rules)
    THEN rulesMissing(p, k)
         \o (IF p.type = Some("link") THEN linkDefaultChecks(p, k) ELSE <<>>)
    ELSE rulesChecks(p, k)

\* lines 63-301
rulesBranch(p, k) ==
    IF NotObj(p.rules) THEN rulesMissing(p, k) ELSE rulesChecks(p, k)

\* lines 18-304
validateField(p, k) == baseChecks(p, k) \o rulesBranch(p, k)

-----------------------------------------------------------------------------
(* The calls of validateField made in one run, as the paths (keys from the  *)
(* root) of the nodes they validate: the call structure of lines 63, 107,  *)
(* 147, 170 and 178-182.                                                   *)

RECURSIVE validateFieldCalls(_, _)
RECURSIVE forInItemsCalls(_, _, _)

forInItemsCalls(properties, i, path) ==
    IF i > Len(properties)
    THEN <<>>
    ELSE validateFieldCalls(properties[i].value,
                            Append(path, properties[i].key))
         \o forInItemsCalls(properties, i + 1, path)

validateFieldCalls(p, path) ==
    <<path>>
    \o (IF /\ ~NotObj(p.rules)
           /\ p.type = Some("array")
           /\ ~NotObj(p.items)
           /\ ~NotObj(p.items[1].properties)
        THEN forInItemsCalls(p.items[1].properties[1], 1, path)
        ELSE <<>>)

-----------------------------------------------------------------------------
(* validateModule, src/unnamed/part_000 lines 306-337 *)

\* !component.tags
NotTags(t) == t \in {"undefined", "''"}
\* Array.isArray(component.tags)
IsArrayTags(t) == t \in {"[]", "['news']"}

\* the component checks with the missing tags reported under attribute code
componentChecks_tagsAsCode(c) ==
    (IF NotStr(c.code)
     THEN <<ComponentDiag("Component code is required", "code")>>
     ELSE <<>>)
    \o
    (IF NotStr(c.title)
     THEN <<ComponentDiag("Component title is required", "title")>>
     ELSE <<>>)
    \o
    (IF NotTags(c.tags)
     THEN <<ComponentDiag("Component tags are required", "code")>>
     ELSE IF ~IsArrayTags(c.tags)
     THEN <<ComponentDiag("Component tags must be an array", "tags")>>
     ELSE <<>>)

\* lines 310-325
componentChecks(c) ==
    (IF NotStr(c.code)
     THEN <<ComponentDiag("Component code is required", "code")>>
     ELSE <<>>)
    \o
    (IF NotStr(c.title)
     THEN <<ComponentDiag("Component title is required", "title")>>
     ELSE <<>>)
    \o
    (IF NotTags(c.tags)
     THEN <<ComponentDiag("Component tags are required", "tags")>>
     ELSE IF ~IsArrayTags(c.tags)
     THEN <<ComponentDiag("Component tags must be an array", "tags")>>
     ELSE <<>>)

RECURSIVE forInProperties(_, _)
RECURSIVE forInProperties_stopAtFirst(_, _)

\* the loop of lines 332-334 leaving at the first property that has diagnostics
forInProperties_stopAtFirst(properties, i) ==
    IF i > Len(properties)
    THEN <<>>
    ELSE IF validateField(properties[i].value, properties[i].key) # <<>>
    THEN validateField(properties[i].value, properties[i].key)
    ELSE forInProperties_stopAtFirst(properties, i + 1)

\* lines 332-334: the loop over component.properties, from entry i on
forInProperties(properties, i) ==
    IF i > Len(properties)
    THEN <<>>
    ELSE validateField(properties[i].value, properties[i].key)
         \o forInProperties(properties, i + 1)

\* lines 326-335
propertiesChecks(c) ==
    IF NotObj(c.properties)
    THEN <<ComponentDiag("Component properties are required", "properties")>>
    ELSE forInProperties(c.properties[1], 1)

\* lines 306-337
validateModule(c) == componentChecks(c) \o propertiesChecks(c)

\* the calls of validateField made by validateModule (lines 326-335)
validateModuleCalls(c) ==
    IF NotObj(c.properties)
    THEN <<>>
    ELSE forInItemsCalls(c.properties[1], 1, <<>>)

-----------------------------------------------------------------------------
(* validateField, the copy in src/src/validate/index.ts lines 8-102.  The  *)
(* type, description, name, rules-missing, text and array blocks read the  *)
(* same as in part_000 and are shared; the blocks below differ.            *)

\* index.ts lines 24-26
defaultCheck_index(p, k) ==
    IF NotDefault(p.default)
    THEN <<FieldDiag("Field default is required", "default", k, "warning")>>
    ELSE <<>>

\* !property.rules.required
NotRequired(r) == r \in {"undefined", "false", "0"}

\* index.ts lines 31-33
requiredCheck_index(p, k) ==
    IF NotRequired(p.rules[1].required)
    THEN <<FieldDiag("Field rules.required is required", "rules.required", k,
                     "error")>>
    ELSE <<>>

\* index.ts lines 34-42
contentChecks_index(p, k) ==
    IF ~NotObj(p.rules[1].content)
    THEN (IF NotNum(p.rules[1].content[1].min)
          THEN <<FieldDiag("Content rules must have a minimum length",
                           "rules.content.min", k, "warning")>>
          ELSE <<>>)
         \o
         (IF NotNum(p.rules[1].content[1].max)
          THEN <<FieldDiag("Content rules must have a maximum length",
                           "rules.content.min", k, "warning")>>
          ELSE <<>>)
    ELSE <<>>

RECURSIVE validateField_index(_, _)
RECURSIVE forInItems_index(_, _)

\* index.ts lines 74-76
forInItems_index(properties, i) ==
    IF i > Len(properties)
    THEN <<>>
    ELSE validateField_index(properties[i].value, properties[i].key)
         \o forInItems_index(properties, i + 1)

\* index.ts lines 63-78
itemsChecks_index(p, k) ==
    IF NotObj(p.items)
    THEN <<FieldDiag("Items are required for array fields", "items", k,
                     "error")>>
    ELSE itemsTypeCheck(p, k)
         \o
         (IF NotObj(p.items[1].properties)
          THEN <<FieldDiag("Properties are required for array fields",
                           "items.properties", k, "error")>>
          ELSE forInItems_index(p.items[1].properties[1], 1))

\* index.ts lines 48-79
arrayChecks_index(p, k) ==
    IF p.type = Some("array")
    THEN arrayContentChecks(p, k) \o itemsChecks_index(p, k)
    ELSE <<>>

\* index.ts lines 80-98
imageChecks_index(p, k) ==
    IF p.type = Some("image")
    THEN (IF NotDefault(p.default)
          THEN <<FieldDiag("Default is required for image fields", "default",
                           k, "error")>>
          ELSE <<>>)
         \o dimensionChecks(p, k)
    ELSE <<>>

\* index.ts lines 8-102
validateField_index(p, k) ==
    typeCheck(p, k) \o descriptionCheck(p, k) \o nameCheck(p, k)
    \o defaultCheck_index(p, k)
    \o (IF NotObj(p.rules)
        THEN rulesMissing(p, k)
        ELSE requiredCheck_index(p, k) \o contentChecks_index(p, k)
             \o textChecks(p, k) \o arrayChecks_index(p, k)
             \o imageChecks_index(p, k))

\* index.ts lines 117-119
RECURSIVE forInProperties_index(_, _)
forInProperties_index(properties, i) ==
    IF i > Len(properties)
    THEN <<>>
    ELSE validateField_index(properties[i].value, properties[i].key)
         \o forInProperties_index(properties, i + 1)

\* validateModule, index.ts lines 104-122
validateModule_index(c) ==
    (IF NotStr(c.code)
     THEN <<ComponentDiag("Component code is required", "code")>>
     ELSE <<>>)
    \o
    (IF NotStr(c.title)
     THEN <<ComponentDiag("Component title is required", "title")>>
     ELSE <<>>)
    \o
    (IF NotObj(c.properties)
     THEN <<ComponentDiag("Component properties are required", "properties")>>
     ELSE forInProperties_index(c.properties[1], 1))


\* the calls of validateField of index.ts made in one run, as paths: the
\* call structure of index.ts lines 28, 48, 63, 71 and 74-76
RECURSIVE validateFieldCalls_index(_, _)
RECURSIVE forInItemsCalls_index(_, _, _)

forInItemsCalls_index(properties, i, path) ==
    IF i > Len(properties)
    THEN <<>>
    ELSE validateFieldCalls_index(properties[i].value,
                                  Append(path, properties[i].key))
         \o forInItemsCalls_index(properties, i + 1, path)

validateFieldCalls_index(p, path) ==
    <<path>>
    \o (IF /\ ~NotObj(p.rules)
           /\ p.type = Some("array")
           /\ ~NotObj(p.items)
           /\ ~NotObj(p.items[1].properties)
        THEN forInItemsCalls_index(p.items[1].properties[1], 1, path)
        ELSE <<>>)

\* the calls of validateField made by validateModule of index.ts (lines
\* 114-120)
validateModuleCalls_index(c) ==
    IF NotObj(c.properties)
    THEN <<>>
    ELSE forInItemsCalls_index(c.properties[1], 1, <<>>)

-----------------------------------------------------------------------------
(* Inputs *)

KeyNames == <<"title", "items", "image", "link", "button", "label">>

Field(type, name, description, default, rules, items) ==
    [type |-> type, name |-> name, description |-> description,
     default |-> default, rules |-> rules, items |-> items]

Rules(required, content, dimensions) ==
    Some([required |-> required, content |-> content,
          dimensions |-> dimensions])

Content(min, max) == Some([min |-> min, max |-> max])

Dimensions(width, height) ==
    Some([min |-> Some([width |-> width, height |-> height])])

Items(type, properties) == Some([type |-> type, properties |-> properties])

\* a mapping whose i-th entry has the i-th key name
Mapping(values) ==
    [i \in 1..Len(values) |-> [key |-> KeyNames[i], value |-> values[i]]]

RequiredValues == {"undefined", "true", "false", "'yes'", "0"}
OptNums == {None} \cup {Some(n) : n \in -1..MaxNum}
OptSizes == {None} \cup {Some(n) : n \in 0..MaxNum}
Contents == {None} \cup {Content(a, b) : a \in OptNums, b \in OptNums}
DimensionValues ==
    {None, Some([min |-> None])}
    \cup {Dimensions(w, h) : w \in OptSizes, h \in OptSizes}
Metas ==
    {<<n, d>> : n \in {None, Some("Title")}, d \in {None, Some("The title")}}
    \cup {<<Some(""), Some("")>>}
ScalarDefaults == {DUndefined, DString(""), DString("Hello")}

\* fields that satisfy every rule of their type
ValidRules == {Rules(r, Content(a, b), None) :
                 r \in {"true", "false"}, a \in {Some(n) : n \in 1..MaxNum},
                 b \in {Some(n) : n \in 1..MaxNum}}
ValidTexts ==
    {Field(Some("text"), Some("Title"), Some("The title"), d, r, None) :
       d \in {DString(""), DString("Hello")}, r \in ValidRules}
ValidGroup ==
    Field(Some("group"), Some("Group"), Some("A group"), DString("g"),
          Rules("false", None, None), None)
ValidLink ==
    Field(Some("link"), Some("Link"), Some("A link"),
          DObject({"url", "text"}), Rules("true", None, None), None)
ValidButton ==
    Field(Some("button"), Some("Button"), Some("A button"),
          DObject({"url", "label"}), Rules("false", None, None), None)
ValidImage ==
    Field(Some("image"), Some("Image"), Some("An image"),
          DObject({"src", "alt"}),
          Rules("true", None, Dimensions(Some(MaxNum), Some(1))), None)

\* the fields used as entries of items.properties
ValidText ==
    Field(Some("text"), Some("Title"), Some("The title"), DString(""),
          Rules("true", Content(Some(1), Some(MaxNum)), None), None)
NoType ==
    Field(None, Some("Title"), Some("The title"), DString("Hello"),
          Rules("false", None, None), None)
NoRules ==
    Field(Some("group"), Some("Group"), Some("A group"), DString("g"), None,
          None)
KidFields == {ValidText, NoType, NoRules}

ArrayOf(rules, values) ==
    Field(Some("array"), Some("List"), Some("A list"), DUndefined, rules,
          Items(Some("group"), Some(Mapping(values))))

\* the fields nested at most d arrays deep
RECURSIVE Nest(_)
Nest(d) ==
    IF d = 0
    THEN KidFields
    ELSE KidFields
         \cup {ArrayOf(r, v) :
                 r \in {Rules("true", Content(Some(1), Some(MaxNum)), None),
                        None},
                 v \in {<<x>> : x \in Nest(d - 1)}
                       \cup {<<NoType, x>> : x \in Nest(d - 1)}}

\* the values of items.properties
NestedMappings ==
    {Mapping(v) : v \in {<<>>} \cup {<<x>> : x \in Nest(MaxDepth - 1)}
                        \cup {<<NoType, x>> : x \in Nest(MaxDepth - 1)}}

PlainFields ==
    {Field(t, m[1], m[2], d, r, None) :
       t \in {None, Some(""), Some("bogus"), Some("group"), Some("text")},
       m \in Metas, d \in ScalarDefaults,
       r \in {None} \cup {Rules(q, c, None) : q \in RequiredValues,
                                               c \in Contents}}

ImageFields ==
    {Field(Some("image"), m[1], m[2], d, r, None) :
       m \in Metas,
       d \in ScalarDefaults \cup {DObject(ks) : ks \in SUBSET {"src", "alt"}},
       r \in {None}
             \cup {Rules(q, c, x) :
                     q \in {"undefined", "true", "false"},
                     c \in {None, Content(Some(1), Some(MaxNum))},
                     x \in DimensionValues}}

LinkFields ==
    {Field(t, m[1], m[2], d, r, None) :
       t \in {Some("link"), Some("button")}, m \in Metas,
       d \in ScalarDefaults
             \cup {DObject(ks) : ks \in SUBSET {"url", "text", "label"}},
       r \in {None}
             \cup {Rules(q, c, None) :
                     q \in RequiredValues,
                     c \in {None, Content(Some(1), Some(MaxNum))}}}

\* arrays with every rules value and a few items values
ArrayFieldsByRules ==
    {Field(Some("array"), m[1], m[2], d, r, i) :
       m \in Metas, d \in {DUndefined, DString("Hello")},
       r \in {None} \cup {Rules(q, c, None) : q \in RequiredValues,
                                               c \in Contents},
       i \in {None, Items(None, None), Items(Some("group"), Some(<<>>)),
              Items(Some("group"), Some(Mapping(<<ValidText>>))),
              Items(Some("bogus"), Some(Mapping(<<NoType>>)))}}

\* arrays with every items value and a few rules values
ArrayFieldsByItems ==
    {Field(Some("array"), m[1], m[2], DUndefined, r, i) :
       m \in {<<Some("List"), Some("A list")>>, <<None, None>>},
       r \in {None, Rules("undefined", None, None),
              Rules("true", Content(Some(1), Some(MaxNum)), None)},
       i \in {None}
             \cup {Items(t, ps) :
                     t \in {None, Some("bogus"), Some("group")},
                     ps \in {None} \cup {Some(nm) : nm \in NestedMappings}}}

\* the inputs of validateField
FieldInputs ==
    PlainFields \cup ImageFields \cup LinkFields \cup ArrayFieldsByRules
    \cup ArrayFieldsByItems

\* the fields of component.properties
TopFields ==
    ValidTexts \cup {ValidGroup, ValidLink, ValidButton, ValidImage}
    \cup Nest(MaxDepth)
    \cup {Field(Some("image"), None, Some("An image"), DObject({"src"}),
                Rules("true", None, Dimensions(Some(1), None)), None),
          Field(Some("array"), Some("List"), None, DUndefined,
                Rules("0", Content(Some(0), None), None), None)}

SiblingFields == {ValidText, NoType, ArrayOf(None, <<NoRules>>)}

\* sequences of at most n fields, at most one of them outside SiblingFields
RECURSIVE PropertyLists(_)
PropertyLists(n) ==
    IF n = 0
    THEN {<<>>}
    ELSE PropertyLists(n - 1)
         \cup {Append(l, x) : l \in PropertyLists(n - 1), x \in SiblingFields}
         \cup {Append(l, x) :
                 l \in {m \in PropertyLists(n - 1) :
                          \A i \in 1..Len(m) : m[i] \in SiblingFields},
                 x \in TopFields}

Component(code, title, tags, properties) ==
    [code |-> code, title |-> title, tags |-> tags, properties |-> properties]

TagsValues == {"undefined", "''", "'news'", "[]", "['news']"}

Components ==
    {Component(c, t, g, ps) :
       c \in {None, Some(""), Some("hero")},
       t \in {None, Some("Hero")},
       g \in TagsValues,
       ps \in {None} \cup {Some(Mapping(l)) : l \in PropertyLists(MaxProps)}}

\* the keys validateField is called with directly
FieldKeys == {"hero", "cards"}

NoComponent == Component(None, None, "undefined", None)
NoProperty == Field(None, None, None, DUndefined, None, None)

-----------------------------------------------------------------------------
(* formatErrors, src/unnamed/part_000 lines 339-360.  A printed string is   *)
(* the sequence of its segments [colour, text]: chalk returns one coloured  *)
(* segment, join puts an uncoloured "\n" segment between two lines.         *)

\* the characters of the strings that are capitalized: the severities and
\* the property keys
Chars(str) ==
    CASE str = "error" -> <<"e", "r", "r", "o", "r">>
      [] str = "warning" -> <<"w", "a", "r", "n", "i", "n", "g">>
      [] str = "title" -> <<"t", "i", "t", "l", "e">>
      [] str = "items" -> <<"i", "t", "e", "m", "s">>
      [] str = "image" -> <<"i", "m", "a", "g", "e">>
      [] str = "link" -> <<"l", "i", "n", "k">>
      [] str = "button" -> <<"b", "u", "t", "t", "o", "n">>
      [] str = "label" -> <<"l", "a", "b", "e", "l">>
      [] str = "hero" -> <<"h", "e", "r", "o">>
      [] str = "cards" -> <<"c", "a", "r", "d", "s">>
      [] str = "" -> <<>>

RECURSIVE Str(_)
Str(chars) == IF chars = <<>> THEN "" ELSE Head(chars) \o Str(Tail(chars))

LowerCase ==
    <<"a", "b", "c", "d", "e", "f", "g", "h", "i", "j", "k", "l", "m", "n",
      "o", "p", "q", "r", "s", "t", "u", "v", "w", "x", "y", "z">>
UpperCase ==
    <<"A", "B", "C", "D", "E", "F", "G", "H", "I", "J", "K", "L", "M", "N",
      "O", "P", "Q", "R", "S", "T", "U", "V", "W", "X", "Y", "Z">>

\* c.toUpperCase() of one character
toUpperCase(c) ==
    IF \E i \in 1..Len(LowerCase) : LowerCase[i] = c
    THEN UpperCase[CHOOSE i \in 1..Len(LowerCase) : LowerCase[i] = c]
    ELSE c

\* lines 357-360; s is an optional string, None being undefined
capitalize(s) ==
    IF s = None
    THEN ""
    ELSE IF Chars(s[1]) = <<>>
    THEN ""
    ELSE toUpperCase(Head(Chars(s[1]))) \o Str(Tail(Chars(s[1])))

\* lines 339-344: the chalk colour of a severity
severityFunction(severity) == IF severity = "error" THEN "red" ELSE "yellow"

\* error.severity, None when the diagnostic has none
SeverityOf(error) ==
    IF "severity" \in DOMAIN error THEN Some(error.severity) ELSE None

\* error.property, None when the diagnostic has none
PropertyOf(error) ==
    IF "property" \in DOMAIN error THEN Some(error.property) ELSE None

\* lines 349-351: one diagnostic rendered
formatError(error) ==
    [colour |-> severityFunction(IF SeverityOf(error) = None
                                 THEN "error" ELSE error.severity),
     text |-> capitalize(SeverityOf(error)) \o ": " \o error.message \o " "
              \o (IF ~NotStr(PropertyOf(error))
                  THEN "for " \o capitalize(PropertyOf(error))
                  ELSE "")
              \o " "]

\* chalk.red(text) and the like
chalk(colour, text) == <<[colour |-> colour, text |-> text]>>

\* lines 353: lines.join("\n"), from line i on
RECURSIVE join(_, _)
join(lines, i) ==
    IF i > Len(lines)
    THEN <<>>
    ELSE IF i = Len(lines)
    THEN <<lines[i]>>
    ELSE <<lines[i], [colour |-> "none", text |-> "\n"]>> \o join(lines, i + 1)

\* lines 346-354
formatErrors(es) == join([i \in 1..Len(es) |-> formatError(es[i])], 1)

-----------------------------------------------------------------------------
(* The state machines: an input is drawn, the function is applied to it *)

Init ==
    /\ component \in Components
    /\ property = NoProperty
    /\ key = ""
    /\ errors = <<>>
    /\ calls = <<>>
    /\ pc = "start"
    /\ console = <<>>
    /\ remote = <<>>
    /\ tasks = <<>>

\* validateModule(component)
ValidateModule ==
    /\ pc = "start"
    /\ errors' = validateModule(component)
    /\ calls' = validateModuleCalls(component)
    /\ pc' = "validateModule"
    /\ UNCHANGED <<component, property, key, console, remote, tasks>>

Next == ValidateModule

Spec == Init /\ [][Next]_vars

InitField ==
    /\ component = NoComponent
    /\ property \in FieldInputs
    /\ key \in FieldKeys
    /\ errors = <<>>
    /\ calls = <<>>
    /\ pc = "start"
    /\ console = <<>>
    /\ remote = <<>>
    /\ tasks = <<>>

\* validateField(property, key) of part_000
ValidateField ==
    /\ pc = "start"
    /\ errors' = validateField(property, key)
    /\ calls' = validateFieldCalls(property, <<key>>)
    /\ pc' = "validateField"
    /\ UNCHANGED <<component, property, key, console, remote, tasks>>

\* validateField(property, key) of src/src/validate/index.ts
ValidateFieldIndex ==
    /\ pc = "start"
    /\ errors' = validateField_index(property, key)
    /\ calls' = validateFieldCalls_index(property, <<key>>)
    /\ pc' = "validateField_index"
    /\ UNCHANGED <<component, property, key, console, remote, tasks>>

NextField == ValidateField \/ ValidateFieldIndex

SpecField == InitField /\ [][NextField]_vars

\* validateComponent, lines 362-371, after validateModule has returned:
\* the verdict is printed
PrintVerdict ==
    /\ pc = "validateModule"
    /\ console' = IF Len(errors) > 0
                  THEN <<[stream |-> "error",
                          args |-> <<chalk("red", "Validation failed\n"),
                                     formatErrors(errors)>>]>>
                  ELSE <<[stream |-> "log",
                          args |-> <<chalk("green", "Validation passed")>>]>>
    /\ pc' = "validateComponent"
    /\ UNCHANGED <<component, property, key, errors, calls, remote, tasks>>

\* validateModule(component) of src/src/validate/index.ts, as its
\* validateComponent calls it on data.latest (index.ts lines 142-144)
ValidateModuleIndex ==
    /\ pc = "start"
    /\ errors' = validateModule_index(component)
    /\ calls' = validateModuleCalls_index(component)
    /\ pc' = "validateModule_index"
    /\ UNCHANGED <<component, property, key, console, remote, tasks>>

\* validateComponent of index.ts, lines 145-149: the verdict is printed
\* (formatErrors of index.ts, lines 124-139, reads as in part_000)
PrintVerdictIndex ==
    /\ pc = "validateModule_index"
    /\ console' = IF Len(errors) > 0
                  THEN <<[stream |-> "error",
                          args |-> <<chalk("red", "Validation failed\n"),
                                     formatErrors(errors)>>]>>
                  ELSE <<[stream |-> "log",
                          args |-> <<chalk("green", "Validation passed")>>]>>
    /\ pc' = "validateComponent_index"
    /\ UNCHANGED <<component, property, key, errors, calls, remote, tasks>>

NextComponent ==
    ValidateModule \/ PrintVerdict \/ ValidateModuleIndex \/ PrintVerdictIndex

\* validateComponent of either copy: the component is validated, then the
\* verdict is printed
SpecComponent == Init /\ [][NextComponent]_vars

-----------------------------------------------------------------------------
(* validateAll, src/unnamed/part_000 lines 373-387 and                     *)
(* src/src/validate/index.ts lines 152-166.  The callbacks of data.map run *)
(* one after the other up to their await, which issues every fetch; each   *)
(* callback resumes when its own fetch resolves, in any order, and runs to *)
(* its end without another await.                                          *)

TitleNames == <<"Hero", "Cards", "Footer", "Banner", "Quote">>

\* fetchComponentList(): the entries of the remote store
fetchComponentList == [i \in 1..Len(remote) |-> [id |-> i, title |-> TitleNames[i]]]

\* fetchComponent(id) as part_000 uses it: the component itself
fetchComponent(id) == remote[id]

\* fetchComponent(id) as index.ts uses it: the component under latest
fetchComponent_index(id) == [latest |-> remote[id]]

\* the verdict printed whenever there is more than one diagnostic
verdict_moreThanOne(title, es) ==
    IF Len(es) > 1
    THEN <<[stream |-> "error",
            args |-> <<chalk("red", "\nValidation failed for " \o title)>>],
           [stream |-> "log", args |-> <<formatErrors(es)>>]>>
    ELSE <<[stream |-> "log",
            args |-> <<chalk("green", "\nValidation passed for " \o title)>>]>>

\* part_000 lines 380-385 (index.ts lines 159-164): what is printed
verdict(title, es) ==
    IF Len(es) > 0
    THEN <<[stream |-> "error",
            args |-> <<chalk("red", "\nValidation failed for " \o title)>>],
           [stream |-> "log", args |-> <<formatErrors(es)>>]>>
    ELSE <<[stream |-> "log",
            args |-> <<chalk("green", "\nValidation passed for " \o title)>>]>>

\* components of the remote store
RemoteComponents ==
    {Component(Some("hero"), Some("Hero"), "['news']",
               Some(Mapping(<<ValidText, ValidImage>>))),
     Component(Some("hero"), Some("Hero"), "undefined",
               Some(Mapping(<<ValidLink>>))),
     Component(None, Some("Hero"), "[]", Some(Mapping(<<ValidText>>))),
     Component(Some("hero"), Some("Hero"), "[]",
               Some(Mapping(<<ValidText, NoRules>>))),
     Component(Some("hero"), None, "[]", None)}

RECURSIVE Lists(_, _)
Lists(S, n) ==
    IF n = 0
    THEN {<<>>}
    ELSE Lists(S, n - 1)
         \cup {Append(l, x) : l \in {m \in Lists(S, n - 1) : Len(m) = n - 1},
                              x \in S}

InitAll ==
    /\ component = NoComponent
    /\ property = NoProperty
    /\ key = ""
    /\ errors = <<>>
    /\ calls = <<>>
    /\ pc = "start"
    /\ console = <<>>
    /\ remote \in Lists(RemoteComponents, MaxComponents)
    /\ tasks = [i \in 1..Len(remote) |-> [fetches |-> 0, state |-> "idle"]]

\* lines 374-377: the list is fetched and every callback runs to its await
StartCallbacks(name) ==
    /\ pc = "start"
    /\ tasks' = [i \in 1..Len(fetchComponentList) |->
                   [fetches |-> tasks[i].fetches + 1, state |-> "pending"]]
    /\ pc' = name
    /\ UNCHANGED <<component, property, key, errors, calls, console, remote>>

\* validateAll of part_000
ValidateAll == StartCallbacks("validateAll")

\* validateAll of src/src/validate/index.ts
ValidateAllIndex == StartCallbacks("validateAll_index")

\* part_000 lines 377-385: the fetch of entry i resolves and its callback ends
Resume(i) ==
    /\ pc = "validateAll"
    /\ tasks[i].state = "pending"
    /\ console' = console
                  \o verdict(fetchComponentList[i].title,
                             validateModule(fetchComponent(
                                fetchComponentList[i].id)))
    /\ tasks' = [tasks EXCEPT ![i].state = "done"]
    /\ UNCHANGED <<component, property, key, errors, calls, pc, remote>>

\* index.ts lines 156-164: the same with full.latest
ResumeIndex(i) ==
    /\ pc = "validateAll_index"
    /\ tasks[i].state = "pending"
    /\ console' = console
                  \o verdict(fetchComponentList[i].title,
                             validateModule_index(fetchComponent_index(
                                fetchComponentList[i].id).latest))
    /\ tasks' = [tasks EXCEPT ![i].state = "done"]
    /\ UNCHANGED <<component, property, key, errors, calls, pc, remote>>

NextAll ==
    \/ ValidateAll
    \/ ValidateAllIndex
    \/ \E i \in 1..Len(tasks) : Resume(i)
    \/ \E i \in 1..Len(tasks) : ResumeIndex(i)

SpecAll == InitAll /\ [][NextAll]_vars

-----------------------------------------------------------------------------
(* Vocabulary of the properties *)

Indices(es) == 1..Len(es)

\* how many diagnostics of es satisfy Test
Count(es, Test(_)) == Cardinality({i \in Indices(es) : Test(es[i])})

HasProperty(d) == "property" \in DOMAIN d

Truthy(o) == o # None /\ o[1] # ""
Positive(o) == o # None /\ o[1] >= 1

Entries(mapping) == {mapping[i] : i \in 1..Len(mapping)}

\* the field with its items.properties emptied (an array keeps the mapping)
WithoutNested(p) ==
    IF p.items # None /\ p.items[1].properties # None
    THEN [p EXCEPT !.items = Items(p.items[1].type, Some(<<>>))]
    ELSE p

\* a field that has everything its type calls for
RECURSIVE ValidField(_)
ValidField(p) ==
    /\ p.type # None /\ p.type[1] \in FieldTypes
    /\ Truthy(p.name)
    /\ Truthy(p.description)
    /\ p.rules # None
    /\ p.rules[1].required \in {"true", "false"}
    /\ p.rules[1].content # None =>
         Positive(p.rules[1].content[1].min)
         /\ Positive(p.rules[1].content[1].max)
    /\ CASE p.type = Some("text") ->
              p.default.kind # "undefined" /\ p.rules[1].content # None
         [] p.type = Some("array") ->
              /\ p.rules[1].content # None
              /\ p.items # None
              /\ p.items[1].type # None /\ p.items[1].type[1] \in FieldTypes
              /\ p.items[1].properties # None
              /\ \A e \in Entries(p.items[1].properties[1]) :
                    ValidField(e.value)
         [] p.type = Some("link") ->
              p.default.kind = "object" /\ {"url", "text"} \subseteq p.default.keys
         [] p.type = Some("button") ->
              p.default.kind = "object" /\ {"url", "label"} \subseteq p.default.keys
         [] p.type = Some("image") ->
              /\ p.default.kind = "object"
              /\ {"src", "alt"} \subseteq p.default.keys
              /\ p.rules[1].dimensions # None
              /\ p.rules[1].dimensions[1].min # None
              /\ Positive(p.rules[1].dimensions[1].min[1].width)
              /\ Positive(p.rules[1].dimensions[1].min[1].height)
         [] OTHER -> p.default.kind # "undefined"

ValidComponent(c) ==
    /\ Truthy(c.code)
    /\ Truthy(c.title)
    /\ c.tags \in {"[]", "['news']"}
    /\ c.properties # None
    /\ \A e \in Entries(c.properties[1]) : ValidField(e.value)

\* validateField of every entry of a mapping, concatenated in order
RECURSIVE FieldDiagnostics(_, _)
FieldDiagnostics(mapping, i) ==
    IF i > Len(mapping)
    THEN <<>>
    ELSE validateField(mapping[i].value, mapping[i].key)
         \o FieldDiagnostics(mapping, i + 1)

\* the paths of the nodes of the tree below p: p itself and, when p is an
\* array field, every node below each entry of its items.properties
RECURSIVE NodePaths(_, _)
NodePaths(p, path) ==
    {path}
    \cup (IF p.type = Some("array") /\ p.items # None
             /\ p.items[1].properties # None
          THEN UNION {NodePaths(e.value, Append(path, e.key)) :
                        e \in Entries(p.items[1].properties[1])}
          ELSE {})

ComponentNodePaths(c) ==
    IF c.properties = None
    THEN {}
    ELSE UNION {NodePaths(e.value, <<e.key>>) : e \in Entries(c.properties[1])}

-----------------------------------------------------------------------------
(* Properties *)

\* C1: validateModule returns the empty sequence for every component that has
\* a code, a title, array-valued tags and properties whose fields, nested
\* ones included, have everything their type calls for.
ValidComponentHasNoDiagnostics ==
    (pc = "validateModule" /\ ValidComponent(component)) => errors = <<>>

ValidComponentValidated ==
    /\ pc = "validateModule"
    /\ ValidComponent(component)
    /\ errors = <<>>
    /\ \E e \in Entries(component.properties[1]) :
          /\ e.value.type = Some("array")
          /\ e.value.default.kind = "undefined"
          /\ e.value.items[1].properties[1] # <<>>
    /\ \E e \in Entries(component.properties[1]) : e.value.type # Some("array")

\* C2: for a component with no code the result holds exactly one diagnostic
\* with attribute "code" and no property key, whatever title, tags and
\* properties are.
MissingCodeReportedOnce ==
    (pc = "validateModule" /\ ~Truthy(component.code)) =>
        Count(errors, LAMBDA d : d.attribute = "code" /\ ~HasProperty(d)) = 1

MissingCodeAmongOthers ==
    /\ pc = "validateModule"
    /\ component.code = None
    /\ component.title = None
    /\ component.tags = "'news'"
    /\ component.properties # None
    /\ Count(errors, HasProperty) >= 2
    /\ Count(errors, LAMBDA d : d.attribute = "code") = 1

\* C3: for a component with a properties mapping the result is the
\* component-level diagnostics followed by validateField(properties[k], k) of
\* every key k in iteration order, so that no field's diagnostics depend on
\* its siblings.
SiblingsValidatedIndependently ==
    (pc = "validateModule" /\ component.properties # None) =>
        errors = SelectSeq(errors, LAMBDA d : ~HasProperty(d))
                 \o FieldDiagnostics(component.properties[1], 1)

InvalidSiblingsValidated ==
    /\ pc = "validateModule"
    /\ component.properties # None
    /\ Len(component.properties[1]) >= 2
    /\ \A e \in Entries(component.properties[1]) :
          validateField(e.value, e.key) # <<>>
    /\ Count(errors, LAMBDA d : ~HasProperty(d)) >= 1

\* C4 (as claimed): in one validateModule call every node of the property tree
\* is validated by validateField exactly once, whatever its parent lacks.
EveryNodeValidatedOnce ==
    pc = "validateModule" =>
        /\ {calls[i] : i \in 1..Len(calls)} = ComponentNodePaths(component)
        /\ Len(calls) = Cardinality(ComponentNodePaths(component))

\* the diagnostics of es reported under key k with attribute a and severity v
Reported(es, k, a, v) ==
    {i \in Indices(es) :
       HasProperty(es[i]) /\ es[i].property = k /\ es[i].attribute = a
       /\ es[i].severity = v}

\* C5 (as claimed): for a field whose rules object is present, validateField
\* emits an error with attribute "rules.required" if and only if
\* rules.required is neither exactly true nor exactly false.
RequiredErrorIffNotBoolean ==
    (pc \in {"validateField", "validateField_index"} /\ property.rules # None)
    => (Reported(errors, key, "rules.required", "error") # {}
        <=> property.rules[1].required \notin {"true", "false"})

\* C6 (as claimed): the attribute of a diagnostic is the dotted path of the
\* constraint that failed: rules.content.max for an array whose rules.content
\* lacks max, rules.dimensions.min.width / .height for an image whose
\* rules.dimensions.min lacks width / height.
AttributeNamesFailedConstraint ==
    (pc = "validateField" /\ property.rules # None) =>
        /\ (/\ property.type = Some("array")
            /\ property.rules[1].content # None
            /\ property.rules[1].content[1].max = None)
           => Reported(errors, key, "rules.content.max", "error") # {}
        /\ (/\ property.type = Some("image")
            /\ property.rules[1].dimensions # None
            /\ property.rules[1].dimensions[1].min # None)
           => /\ property.rules[1].dimensions[1].min[1].width = None
                 => Reported(errors, key, "rules.dimensions.min.width",
                             "error") # {}
              /\ property.rules[1].dimensions[1].min[1].height = None
                 => Reported(errors, key, "rules.dimensions.min.height",
                             "error") # {}

\* C7: for an array field with rules.content present, a min below 1 (0, -1)
\* makes validateField emit an error with attribute "rules.content.min", and
\* a min of 1 or more leaves no error with that attribute other than the one
\* a missing max causes.
ArrayMinBelowOneIsError ==
    (/\ pc \in {"validateField", "validateField_index"}
     /\ property.type = Some("array")
     /\ property.rules # None
     /\ property.rules[1].content # None
     /\ property.rules[1].content[1].min # None)
    => /\ property.rules[1].content[1].min[1] < 1
          => \E i \in Reported(errors, key, "rules.content.min", "error") :
                errors[i].message \in
                   {"Array fields must have a minimum content length",
                    "Array fields must have a maximum content length"}
       /\ property.rules[1].content[1].min[1] >= 1
          => Cardinality(Reported(errors, key, "rules.content.min", "error"))
             = (IF NotNum(property.rules[1].content[1].max) THEN 1 ELSE 0)

ArrayMinNegativeReported ==
    /\ pc = "validateField"
    /\ property.type = Some("array")
    /\ property.rules # None
    /\ property.rules[1].content # None
    /\ property.rules[1].content[1].min = Some(-1)
    /\ property.rules[1].content[1].max = Some(1)
    /\ Cardinality(Reported(errors, key, "rules.content.min", "error")) = 1

\* C8: for an image field that is valid in every other respect and whose
\* rules.dimensions.min has width but no height, validateField returns exactly
\* one diagnostic, the height error; and the width error alone when width is
\* the one missing.
ImageLacking(p, width, height) ==
    /\ p.type = Some("image")
    /\ p.rules # None
    /\ p.rules[1].dimensions # None
    /\ p.rules[1].dimensions[1].min # None
    /\ p.rules[1].dimensions[1].min[1].width = width
    /\ p.rules[1].dimensions[1].min[1].height = height
    /\ ValidField([p EXCEPT !.rules =
                     Rules(p.rules[1].required, p.rules[1].content,
                           Dimensions(Some(1), Some(1)))])

WidthAndHeightIndependent ==
    pc = "validateField" =>
        /\ (\E w \in 1..MaxNum : ImageLacking(property, Some(w), None))
           => errors = <<FieldDiag("Minimum height is required for image fields",
                                   "rules.dimensions.height", key, "error")>>
        /\ (\E h \in 1..MaxNum : ImageLacking(property, None, Some(h)))
           => errors = <<FieldDiag("Minimum width is required for image fields",
                                   "rules.dimensions.width", key, "error")>>

ImageWithoutHeightValidated ==
    /\ pc = "validateField"
    /\ ImageLacking(property, Some(1), None)
    /\ Len(errors) = 1
    /\ errors[1].attribute = "rules.dimensions.height"

\* C9: for an array field with rules, items and items.properties present the
\* result is the array-level diagnostics followed, flat, by the diagnostics of
\* validateField(items.properties[k], k) of every entry k; what a nested field
\* itself reports carries the nested key, so a nested field without type
\* yields an error with attribute "type" under its own key.
NestedDiagnosticsAppendedFlat ==
    (/\ pc = "validateField"
     /\ property.type = Some("array")
     /\ property.rules # None
     /\ property.items # None
     /\ property.items[1].properties # None)
    => /\ errors = validateField(WithoutNested(property), key)
                   \o FieldDiagnostics(property.items[1].properties[1], 1)
       /\ \A e \in Entries(property.items[1].properties[1]) :
             /\ \A i \in Indices(validateField(WithoutNested(e.value), e.key)) :
                   validateField(WithoutNested(e.value), e.key)[i].property
                   = e.key
             /\ e.value.type = None
                => Reported(errors, e.key, "type", "error") # {}

NestedFieldWithoutTypeReported ==
    /\ pc = "validateField"
    /\ property.type = Some("array")
    /\ property.rules # None
    /\ property.items # None
    /\ property.items[1].properties # None
    /\ Len(property.items[1].properties[1]) = 2
    /\ property.items[1].properties[1][1].value.type = None
    /\ property.items[1].properties[1][2].value.type = Some("array")
    /\ validateField(WithoutNested(property), key) # <<>>
    /\ Reported(errors, "title", "type", "error") # {}

\* C10: for a field with no rules object validateField emits exactly one
\* diagnostic with attribute "rules", a warning, and nothing that depends on
\* rules: the result holds only the type, description, name, default and
\* rules checks of the field itself.
NoRulesSkipsRuleChecks ==
    (pc = "validateField" /\ property.rules = None) =>
        /\ Count(errors, LAMBDA d : d.attribute = "rules") = 1
        /\ Cardinality(Reported(errors, key, "rules", "warning")) = 1
        /\ \A i \in Indices(errors) :
              /\ errors[i].property = key
              /\ errors[i].attribute \in
                    {"type", "description", "name", "default", "rules"}
              /\ errors[i].attribute = "default"
                 => errors[i].severity = "warning"
        /\ Len(errors) <= 5

FieldWithoutRulesValidated ==
    /\ pc = "validateField"
    /\ property.rules = None
    /\ property.type \in {Some("link"), Some("array")}
    /\ property.default.kind = "undefined"
    /\ property.name = None
    /\ Len(errors) >= 2


\* the same diagnostic with severity "error"
WithSeverityError(d) ==
    IF HasProperty(d)
    THEN FieldDiag(d.message, d.attribute, d.property, "error")
    ELSE [message |-> d.message, attribute |-> d.attribute,
          severity |-> "error"]

\* C11 (as claimed): formatErrors renders a diagnostic that has no severity
\* exactly as it renders the same diagnostic with severity "error", colour
\* and severity label alike.
UnsetSeverityFormattedAsError ==
    (pc \in {"validateComponent", "validateComponent_index"} /\ errors # <<>>)
    => \A i \in Indices(errors) :
           "severity" \notin DOMAIN errors[i]
           => console[1].args[2][2 * i - 1]
              = formatError(WithSeverityError(errors[i]))

\* the verdicts printed for the entry with this title, as console indices
VerdictsFor(title, word) ==
    {j \in 1..Len(console) :
       console[j].args[1]
       = chalk(IF word = "failed" THEN "red" ELSE "green",
               "\nValidation " \o word \o " for " \o title)}

\* what validateModule of the copy that runs returns for the entry's data
DiagnosticsOfEntry(i) ==
    IF pc = "validateAll_index"
    THEN validateModule_index(remote[i])
    ELSE validateModule(remote[i])

\* C12: in validateAll, whatever the order in which the fetches complete,
\* every component of the list is fetched exactly once, one verdict is
\* printed for it once its fetch has completed (none before), and the verdict
\* is "Validation failed" exactly when validateModule of that component's
\* own data returns a non-empty list.
OneVerdictPerComponent ==
    pc \in {"validateAll", "validateAll_index"} =>
        \A i \in 1..Len(remote) :
           /\ tasks[i].fetches = 1
           /\ Cardinality(VerdictsFor(TitleNames[i], "failed")
                          \cup VerdictsFor(TitleNames[i], "passed"))
              = (IF tasks[i].state = "done" THEN 1 ELSE 0)
           /\ tasks[i].state = "done"
              => (VerdictsFor(TitleNames[i], "failed") # {}
                  <=> DiagnosticsOfEntry(i) # <<>>)

AllVerdictsPrintedOutOfOrder ==
    /\ pc = "validateAll"
    /\ Len(remote) = 3
    /\ \A i \in 1..3 : tasks[i].state = "done"
    /\ VerdictsFor(TitleNames[3], "passed") = {1}
    /\ VerdictsFor(TitleNames[1], "failed") # {}
    /\ VerdictsFor(TitleNames[2], "failed") # {}
    /\ Len(validateModule(remote[1])) = 1
    /\ validateModule_index(remote[2]) = <<>>

====
